---- MODULE Spec2Model ----
(***************************************************************************)
(* The plotting script src/src/plotter.py as a state machine.             *)
(*                                                                         *)
(* The script is straight-line module-level code: read dist/Data.csv into  *)
(* a DataFrame, add one pyplot line per column other than "time", fix the  *)
(* x-range, label the chart, show it (blocking) and print df.head().       *)
(* An uncaught Python exception ends the run where it is raised.           *)
(*                                                                         *)
(* A cell of the table is <<v>> for the number v and <<>> for NaN.         *)
(* A column name is [name, dup]: pandas renames the k-th repeat of a       *)
(* header name "A" to "A.k"; dup = 0 is the name as written.               *)
(* Axis limits are held in twentieths (0.05 is matplotlib's expander).     *)
(***************************************************************************)
EXTENDS Integers, Sequences, FiniteSets, TLC

VARIABLES file, pc, df, col, fig, shown, stdout, err, runs

vars == <<file, pc, df, col, fig, shown, stdout, err, runs>>

\* ---------------------------------------------------------------- bounds

MaxCols == 3

MaxRows == 6

MaxRagged == 1

RerunMaxCols == 2

RerunMaxRows == 1

MaxRuns == 2

\* DataFrame.head() is called without n: pandas' default of 5 rows.
HeadRows == 5

Names == {"time", "A", "B"}

\* ---------------------------------------------------------------- values

NaN == <<>>

Num(v) == <<v>>

Range(s) == {s[k] : k \in 1..Len(s)}

Max(a, b) == IF a >= b THEN a ELSE b

Min(a, b) == IF a <= b THEN a ELSE b

Abs(a) == IF a >= 0 THEN a ELSE -a

ColName(n) == [name |-> n, dup |-> 0]

\* the literal "time" of lines 9, 10 and 13
TimeCol == ColName("time")

NoTable == [columns |-> <<>>, index |-> <<>>, rows |-> <<>>]

\* a fresh pyplot figure: no lines, autoscaled x, no labels, no title
NewFigure ==
  [lines |-> <<>>, xlim |-> <<>>, xlabel |-> "", ylabel |-> "", title |-> "",
   tight |-> FALSE]

\* ---------------------------------------------------------------- input files

\* the number written in field j of data row i
Cell(i, j) == (i - 1) + (j - 1)

Headers(maxCols) == UNION {[1..n -> Names] : n \in 1..maxCols}

\* the data rows of a file with an n-column header: row i has n + shape[i] fields
DataRows(n, shape) ==
  [i \in DOMAIN shape |-> [j \in 1..(n + shape[i]) |-> Cell(i, j)]]

Shapes(maxRows) ==
  {s \in UNION {[1..r -> {-1, 0, 1}] : r \in 0..maxRows} :
     Cardinality({i \in DOMAIN s : s[i] # 0}) <= MaxRagged}

Files(maxCols, maxRows) ==
  {[exists |-> FALSE, header |-> <<>>, rows |-> <<>>],
   [exists |-> TRUE, header |-> <<>>, rows |-> <<>>]}
  \cup {[exists |-> TRUE, header |-> h, rows |-> DataRows(Len(h), s)] :
          h \in Headers(maxCols), s \in Shapes(maxRows)}

\* ---------------------------------------------------------------- pandas

\* duplicate header names are renamed name.1, name.2, ... in header order
Mangle(header) ==
  [j \in DOMAIN header |->
     [name |-> header[j],
      dup |-> Cardinality({k \in 1..(j - 1) : header[k] = header[j]})]]

NonBlank(line) == Len(line) > 0

\* pd.read_csv(path) with the default C parser
read_csv(f) ==
  IF ~f.exists THEN [err |-> "FileNotFoundError", df |-> NoTable]
  ELSE IF f.header = <<>> THEN [err |-> "EmptyDataError", df |-> NoTable]
  ELSE
    LET n == Len(f.header)
        lines == SelectSeq(f.rows, NonBlank)
        width == IF lines = <<>> THEN n ELSE Max(n, Len(lines[1]))
        lead == width - n
    IN IF \E i \in 2..Len(lines) : Len(lines[i]) > width
       THEN [err |-> "ParserError", df |-> NoTable]
       ELSE [err |-> "None",
             df |-> [columns |-> Mangle(f.header),
                     index |-> [i \in DOMAIN lines |->
                                  IF lead = 0 THEN Num(i - 1)
                                  ELSE Num(lines[i][1])],
                     rows |-> [i \in DOMAIN lines |->
                                 [j \in 1..n |->
                                    IF j + lead <= Len(lines[i])
                                    THEN Num(lines[i][j + lead])
                                    ELSE NaN]]]]

\* the position of a column name in the table, 0 when it is absent
ColumnAt(table, c) ==
  IF \E j \in DOMAIN table.columns : table.columns[j] = c
  THEN CHOOSE j \in DOMAIN table.columns : table.columns[j] = c
  ELSE 0

\* a lookup that yields an all-NaN column for an absent name instead of raising
getitem_or_nan(table, c) ==
  [err |-> "None",
   values |-> [i \in DOMAIN table.rows |->
                 IF ColumnAt(table, c) = 0 THEN NaN
                 ELSE table.rows[i][ColumnAt(table, c)]]]

\* df[c]
getitem(table, c) ==
  IF ColumnAt(table, c) = 0 THEN [err |-> "KeyError", values |-> <<>>]
  ELSE [err |-> "None",
        values |-> [i \in DOMAIN table.rows |-> table.rows[i][ColumnAt(table, c)]]]

\* series.iloc[0] in place of series.iloc[-1]
iloc_first(values) ==
  IF Len(values) = 0 THEN [err |-> "IndexError", value |-> NaN]
  ELSE [err |-> "None", value |-> values[1]]

\* a positional read that yields NaN on an empty series instead of raising
iloc_last_or_nan(values) ==
  IF Len(values) = 0 THEN [err |-> "None", value |-> NaN]
  ELSE [err |-> "None", value |-> values[Len(values)]]

\* series.iloc[-1]
iloc_last(values) ==
  IF Len(values) = 0 THEN [err |-> "IndexError", value |-> NaN]
  ELSE [err |-> "None", value |-> values[Len(values)]]

\* df.tail() in place of df.head()
tail(table) ==
  [columns |-> table.columns,
   index |-> SubSeq(table.index, Max(1, Len(table.index) - HeadRows + 1),
                    Len(table.index)),
   rows |-> SubSeq(table.rows, Max(1, Len(table.rows) - HeadRows + 1),
                   Len(table.rows))]

\* df.head()
head(table) ==
  [columns |-> table.columns,
   index |-> SubSeq(table.index, 1, Min(HeadRows, Len(table.index))),
   rows |-> SubSeq(table.rows, 1, Min(HeadRows, Len(table.rows)))]

\* ---------------------------------------------------------------- matplotlib

\* Locator.nonsingular(v0, v1) with expander 0.05, result in twentieths
nonsingular(v0, v1) ==
  IF v0 # v1 THEN <<20 * v0, 20 * v1>>
  ELSE IF v0 = 0 THEN <<-1, 1>>
  ELSE <<20 * v0 - Abs(v0), 20 * v1 + Abs(v1)>>

\* plt.xlim(left, right)
set_xlim(left, right) ==
  IF left = NaN \/ right = NaN THEN [err |-> "ValueError", xlim |-> <<>>]
  ELSE [err |-> "None", xlim |-> nonsingular(left[1], right[1])]

\* the new line put in front of the earlier ones
add_line_first(lines, line) == <<line>> \o lines

\* Axes.plot appends the new Line2D to the axes' lines
add_line(lines, line) == Append(lines, line)

\* a loop without the test of line 9
IsSeriesAlways(column) == TRUE

\* the test of line 9
IsSeries(column) == column # TimeCol

\* ---------------------------------------------------------------- the script

Init ==
  /\ file \in Files(MaxCols, MaxRows)
  /\ pc = "load"
  /\ df = NoTable
  /\ col = 1
  /\ fig = NewFigure
  /\ shown = <<>>
  /\ stdout = <<>>
  /\ err = "None"
  /\ runs = 1

\* an exception that is recorded and swallowed, the script going on to plt.show()
RaiseAndGoOn(e) ==
  /\ pc' = "show"
  /\ err' = e
  /\ UNCHANGED <<file, df, col, fig, shown, stdout, runs>>

\* an uncaught exception: the traceback is printed and the run ends
Raise(e) ==
  /\ pc' = "failed"
  /\ err' = e
  /\ UNCHANGED <<file, df, col, fig, shown, stdout, runs>>

\* line 4
Load ==
  /\ pc = "load"
  /\ LET r == read_csv(file)
     IN IF r.err # "None" THEN Raise(r.err)
        ELSE /\ df' = r.df
             /\ col' = 1
             /\ pc' = "loop"
             /\ UNCHANGED <<file, fig, shown, stdout, err, runs>>

\* lines 8-10, one iteration
PlotColumn ==
  /\ pc = "loop"
  /\ LET column == df.columns[col]
         after == IF col = Len(df.columns) THEN "xlim" ELSE "loop"
         x == getitem(df, TimeCol)
         y == getitem(df, column)
     IN IF ~IsSeries(column)
        THEN /\ col' = col + 1
             /\ pc' = after
             /\ UNCHANGED <<file, df, fig, shown, stdout, err, runs>>
        ELSE IF x.err # "None" THEN Raise(x.err)
        ELSE IF y.err # "None" THEN Raise(y.err)
        ELSE /\ fig' = [fig EXCEPT !.lines =
                          add_line(@, [label |-> column, x |-> x.values,
                                       y |-> y.values])]
             /\ col' = col + 1
             /\ pc' = after
             /\ UNCHANGED <<file, df, shown, stdout, err, runs>>

\* line 13
XLim ==
  /\ pc = "xlim"
  /\ LET x == getitem(df, TimeCol)
         last == iloc_last(x.values)
         lim == set_xlim(Num(0), last.value)
     IN IF x.err # "None" THEN Raise(x.err)
        ELSE IF last.err # "None" THEN Raise(last.err)
        ELSE IF lim.err # "None" THEN Raise(lim.err)
        ELSE /\ fig' = [fig EXCEPT !.xlim = lim.xlim]
             /\ pc' = "xlabel"
             /\ UNCHANGED <<file, df, col, shown, stdout, err, runs>>

\* line 15
XLabel ==
  /\ pc = "xlabel"
  /\ fig' = [fig EXCEPT !.xlabel = "Time (in years)"]
  /\ pc' = "ylabel"
  /\ UNCHANGED <<file, df, col, shown, stdout, err, runs>>

\* line 16
YLabel ==
  /\ pc = "ylabel"
  /\ fig' = [fig EXCEPT !.ylabel = "Asset Price"]
  /\ pc' = "title"
  /\ UNCHANGED <<file, df, col, shown, stdout, err, runs>>

\* line 17
Title ==
  /\ pc = "title"
  /\ fig' = [fig EXCEPT !.title = "Simulated Option Price Paths Over Time"]
  /\ pc' = "tight_layout"
  /\ UNCHANGED <<file, df, col, shown, stdout, err, runs>>

\* line 19
TightLayout ==
  /\ pc = "tight_layout"
  /\ fig' = [fig EXCEPT !.tight = TRUE]
  /\ pc' = "show"
  /\ UNCHANGED <<file, df, col, shown, stdout, err, runs>>

\* line 20, entering plt.show(): the window opens and the call blocks
Show ==
  /\ pc = "show"
  /\ shown' = Append(shown, fig)
  /\ pc' = "showing"
  /\ UNCHANGED <<file, df, col, fig, stdout, err, runs>>

\* line 20, leaving plt.show(): the user closes the window, which destroys
\* the figure, and the call returns
CloseWindow ==
  /\ pc = "showing"
  /\ fig' = NewFigure
  /\ pc' = "print"
  /\ UNCHANGED <<file, df, col, shown, stdout, err, runs>>

\* line 22
PrintHead ==
  /\ pc = "print"
  /\ stdout' = Append(stdout, head(df))
  /\ pc' = "done"
  /\ UNCHANGED <<file, df, col, fig, shown, err, runs>>

Next ==
  \/ Load
  \/ PlotColumn
  \/ XLim
  \/ XLabel
  \/ YLabel
  \/ Title
  \/ TightLayout
  \/ Show
  \/ CloseWindow
  \/ PrintHead

Spec == Init /\ [][Next]_vars

\* ---------------------------------------------------------------- re-execution

\* The script run again in the same interpreter (runpy, %run, reload) on
\* whatever dist/Data.csv then holds: the module globals are rebound as the
\* lines execute, and pyplot's current figure is whatever the last run left.
Rerun ==
  /\ pc \in {"done", "failed"}
  /\ runs < MaxRuns
  /\ file' \in Files(RerunMaxCols, RerunMaxRows)
  /\ pc' = "load"
  /\ err' = "None"
  /\ runs' = runs + 1
  /\ UNCHANGED <<df, col, fig, shown, stdout>>

InitRerun ==
  /\ file \in Files(RerunMaxCols, RerunMaxRows)
  /\ pc = "load"
  /\ df = NoTable
  /\ col = 1
  /\ fig = NewFigure
  /\ shown = <<>>
  /\ stdout = <<>>
  /\ err = "None"
  /\ runs = 1

NextRerun ==
  \/ Load
  \/ PlotColumn
  \/ XLim
  \/ XLabel
  \/ YLabel
  \/ Title
  \/ TightLayout
  \/ Show
  \/ CloseWindow
  \/ PrintHead
  \/ Rerun

SpecRerun == InitRerun /\ [][NextRerun]_vars

\* ---------------------------------------------------------------- properties

NonAxis(c) == c # [name |-> "time", dup |-> 0]

Labels(lines) == [k \in DOMAIN lines |-> lines[k].label]

\* the column names pandas gives the header of the input file
FileColumns == Mangle(file.header)

Loaded == df # NoTable

HasAxis == \E j \in DOMAIN df.columns : ~NonAxis(df.columns[j])

\* the cells of the axis column of the loaded table, in row order
AxisCells ==
  LET j == CHOOSE j \in DOMAIN df.columns : ~NonAxis(df.columns[j])
  IN [i \in DOMAIN df.rows |-> df.rows[i][j]]

\* the last cell of the axis column
AxisLast == AxisCells[Len(AxisCells)]

\* C1: every displayed chart has exactly one trace per non-axis column and
\* none for the axis column: the trace count is the column count minus one
\* and the trace labels are the column names without the axis column, each
\* once.
C1_OneTracePerSeries ==
  \A k \in DOMAIN shown :
    LET labels == Labels(shown[k].lines)
    IN /\ Len(labels) = Len(file.header) - 1
       /\ Range(labels) = Range(FileColumns) \ {[name |-> "time", dup |-> 0]}
       /\ Cardinality(Range(labels)) = Len(labels)

C1_Witness ==
  /\ shown # <<>>
  /\ Len(shown[1].lines) = 2
  /\ \E k \in DOMAIN shown[1].lines : shown[1].lines[k].label.dup = 1

\* C2: traces are added in table column order with the axis column left
\* out: during the loop the traces so far are the non-axis columns among
\* those already visited, in that order, and a displayed chart's trace order
\* is the header's column order without the axis column, a function of the
\* input alone.
C2_TraceOrder ==
  /\ pc = "loop" =>
       Labels(fig.lines) = SelectSeq(SubSeq(df.columns, 1, col - 1), NonAxis)
  /\ \A k \in DOMAIN shown :
       Labels(shown[k].lines) = SelectSeq(FileColumns, NonAxis)

C2_Witness ==
  /\ shown # <<>>
  /\ Len(df.columns) = 3
  /\ ~NonAxis(df.columns[2])
  /\ df.columns[1].name # df.columns[3].name

\* a header of unique names and data rows of exactly as many fields
WellFormedFile ==
  /\ Cardinality(Range(file.header)) = Len(file.header)
  /\ \A i \in DOMAIN file.rows : Len(file.rows[i]) = Len(file.header)

C4_EmptySeriesFails ==
  (Loaded /\ df.columns = <<[name |-> "time", dup |-> 0]>>) =>
    /\ shown = <<>>
    /\ pc \notin {"showing", "print", "done"}

\* a header of unique names and a data row, not a blank line, with one field
\* fewer than the header
HasShortRow ==
  /\ Cardinality(Range(file.header)) = Len(file.header)
  /\ \E i \in DOMAIN file.rows :
       /\ Len(file.rows[i]) = Len(file.header) - 1
       /\ Len(file.rows[i]) >= 1

\* C5: a file with a data row one field short of the header fails to load:
\* no table is produced and no rendering step runs.
C5_ShortRowFailsLoad ==
  HasShortRow =>
    /\ ~Loaded
    /\ fig = NewFigure
    /\ pc \in {"load", "failed"}

\* C6: a loaded table without the axis column makes rendering fail with
\* KeyError at the first lookup, before any trace is drawn and before the
\* chart is displayed; a file with no columns at all never yields a table.
C6_UnknownAxisFails ==
  /\ (Loaded /\ ~HasAxis) =>
       /\ fig.lines = <<>>
       /\ shown = <<>>
       /\ pc \in {"loop", "failed"}
       /\ pc = "loop" => col = 1
       /\ pc = "failed" => err = "KeyError"
  /\ file.header = <<>> => ~Loaded

C6_Witness ==
  /\ pc = "failed"
  /\ err = "KeyError"
  /\ Len(df.columns) = 3
  /\ Len(df.rows) > 0

\* C7: with an axis column of zero rows the x-limit step fails with
\* IndexError (the empty-axis error) and the chart is never displayed.
C7_EmptyAxisFails ==
  (Loaded /\ HasAxis /\ df.rows = <<>>) =>
    /\ shown = <<>>
    /\ pc \in {"loop", "xlim", "failed"}
    /\ pc = "failed" => err = "IndexError"

C7_Witness ==
  /\ pc = "failed"
  /\ err = "IndexError"
  /\ Len(fig.lines) = 2

\* C8: a chart is displayed only with every series trace, the x-limit, the
\* axis labels and the title in place; a failed step ends the run at once:
\* nothing is displayed or printed and no later step has acted.
C8_NoPartialChart ==
  /\ \A k \in DOMAIN shown :
       /\ Labels(shown[k].lines) = SelectSeq(FileColumns, NonAxis)
       /\ shown[k].xlim # <<>>
       /\ shown[k].xlabel = "Time (in years)"
       /\ shown[k].ylabel = "Asset Price"
       /\ shown[k].title = "Simulated Option Price Paths Over Time"
  /\ err # "None" =>
       /\ pc = "failed"
       /\ shown = <<>>
       /\ stdout = <<>>
       /\ [fig EXCEPT !.lines = <<>>] = NewFigure
  /\ err \in {"FileNotFoundError", "EmptyDataError", "ParserError"} =>
       /\ ~Loaded
       /\ fig = NewFigure
  /\ err = "KeyError" => fig = NewFigure

C8_Witness ==
  /\ pc = "failed"
  /\ err = "ValueError"
  /\ Len(fig.lines) = 2
  /\ shown = <<>>

\* C9: the chart displayed by the latest run holds only the traces of that
\* run's table: its trace count is that table's column count minus one.
C9_NoStaleTraces ==
  (pc = "showing" /\ WellFormedFile /\ Len(df.columns) >= 2) =>
    Len(shown[Len(shown)].lines) = Len(df.columns) - 1

\* C10: the preview is printed only after plt.show() has returned, in every
\* run that gets that far and in no failed run, and it is the first rows of
\* the table as read from the file.
C10_PreviewAfterRender ==
  /\ stdout # <<>> =>
       /\ pc = "done"
       /\ err = "None"
       /\ Len(shown) = 1
       /\ fig = NewFigure
  /\ pc = "done" =>
       /\ Len(stdout) = 1
       /\ stdout[1].columns = FileColumns
       /\ stdout[1].rows =
            SubSeq(read_csv(file).df.rows, 1,
                   Min(HeadRows, Len(read_csv(file).df.rows)))
       /\ df = read_csv(file).df
  /\ pc = "failed" => stdout = <<>>

C10_Witness ==
  /\ pc = "done"
  /\ Len(df.rows) > HeadRows
  /\ Len(stdout[1].rows) = HeadRows
  /\ \E i \in DOMAIN df.rows : \E j \in DOMAIN df.rows[i] : df.rows[i][j] = NaN

====
